---- MODULE Spec2Model ----
(***************************************************************************)
(* JumpSim: agent-based market shock simulator.                            *)
(*                                                                         *)
(* A C double is modelled as a fixed-point integer.  Prices, beliefs,      *)
(* shocks, coefficients, returns and volatility count millionths (One is   *)
(* 1.0).  The order-flow quantities of the Market struct                   *)
(* (cumulative_demand, cumulative_volume, liquidity, the argument of       *)
(* market_add_demand) count thousandths (Kilo is 1.0), so that a demand of *)
(* 10000 shares fits the 32-bit integers of the model checker.  cash is    *)
(* kept exactly as a two-limb number.  Every C function is an operator     *)
(* from the old value of the struct to the new one.                        *)
(***************************************************************************)
EXTENDS Integers, Sequences, FiniteSets, TLC

VARIABLES
    m,        \* the Market struct driven through the market API
    op,       \* the market operation that ran last
    ret,      \* the value that operation returned (market_clear, market_log_return)
    nops,     \* market operations run since market_init
    nclears,  \* market_clear calls that found the market not halted
    resumed,  \* TRUE from a market_resume of a halted market to the next market_halt
    was_halted, \* trading_halted as the last market operation found it
    flow,     \* the demands added since the last market_begin_step: signed and absolute sums
    population, \* the agents driven through the agent API
    acall,    \* the agent operation that ran last, with its arguments
    aret,     \* the value agent_compute_demand returned last
    anops,    \* agent operations run since the population was built
    sumq,     \* per agent, the sum of the executed quantities
    notional, \* per agent, the sum of quantity * price, as whole units and millionths
    w,        \* a run of main()
    w2,       \* a second run of main(), for comparing two runs
    news,     \* the file-scope state of news.c: rng_state and regime
    ncall,    \* the news operation that ran last, with what it drew and returned
    nnops     \* news operations run since the program started

marketVars == <<m, op, ret, nops, nclears, resumed, was_halted, flow>>
agentVars == <<population, acall, aret, anops, sumq, notional>>
simVars == <<w, w2>>
newsVars == <<news, ncall, nnops>>
vars == <<marketVars, agentVars, simVars, newsVars>>

(***************************************************************************)
(* Fixed-point arithmetic                                                  *)
(***************************************************************************)
Kilo == 10 * 100
One == Kilo * Kilo

Abs(x) == IF x < 0 THEN -x ELSE x
Sgn(x) == IF x < 0 THEN -1 ELSE IF x > 0 THEN 1 ELSE 0
Max(a, b) == IF a < b THEN b ELSE a
Min(a, b) == IF a < b THEN a ELSE b

\* |a| * |b| / One, truncated, without an intermediate above 2^31
MulAbs(a, b) ==
    LET ah == a \div Kilo
        al == a % Kilo
        bh == b \div Kilo
        bl == b % Kilo
    IN  ah * bh + (ah * bl + al * bh + (al * bl) \div Kilo) \div Kilo

\* the product of two millionths, in millionths (a * b of two doubles)
Mul(a, b) == Sgn(a) * Sgn(b) * MulAbs(Abs(a), Abs(b))

\* floor(d * r / b) for 0 <= r < b, by adding r up d times modulo b
RECURSIVE DigitOf(_, _, _, _, _)
DigitOf(r, b, d, acc, cnt) ==
    IF d = 0 THEN <<cnt, acc>>
    ELSE IF acc >= b - r THEN DigitOf(r, b, d - 1, acc - (b - r), cnt + 1)
         ELSE DigitOf(r, b, d - 1, acc + r, cnt)

\* the first n decimal digits of r / b for 0 <= r < b, as an integer
RECURSIVE FracDigits(_, _, _, _)
FracDigits(r, b, n, acc) ==
    IF n = 0 THEN acc
    ELSE LET s == DigitOf(r, b, 10, 0, 0)
         IN  FracDigits(s[2], b, n - 1, 10 * acc + s[1])

\* |a| / |b| in millionths, truncated (b > 0)
DivAbs(a, b) == (a \div b) * One + FracDigits(a % b, b, 6, 0)

\* the quotient of two numbers of the same scale, in millionths (a / b of two
\* doubles, b # 0)
Div(a, b) == Sgn(a) * Sgn(b) * DivAbs(Abs(a), Abs(b))

(***************************************************************************)
(* log(): natural logarithm of a positive number of millionths, in         *)
(* millionths.  x = mant * 2^k with mant in [1,2); log x = k log 2 + 2     *)
(* atanh((mant-1)/(mant+1)), the series cut after the z^11 term.  Ln is    *)
(* monotone up to the last digits and Ln(x) - Ln(x) is exactly 0.          *)
(***************************************************************************)
Ln2 == 693147

RECURSIVE LnUp(_, _)
LnUp(x, k) == IF x >= One THEN <<x, k>> ELSE LnUp(2 * x, k - 1)

RECURSIVE LnDown(_, _)
LnDown(x, k) == IF x < 2 * One THEN <<x, k>> ELSE LnDown(x \div 2, k + 1)

Atanh2(z) ==
    LET z2 == Mul(z, z)
        z3 == Mul(z, z2)
        z5 == Mul(z3, z2)
        z7 == Mul(z5, z2)
        z9 == Mul(z7, z2)
        z11 == Mul(z9, z2)
    IN  2 * (z + z3 \div 3 + z5 \div 5 + z7 \div 7 + z9 \div 9 + z11 \div 11)

Ln(x) ==
    LET r == IF x >= One THEN LnDown(x, 0) ELSE LnUp(x, 0)
        mant == r[1]
    IN  r[2] * Ln2 + Atanh2(Div(mant - One, mant + One))

(***************************************************************************)
(* Market (core/market.c)                                                  *)
(***************************************************************************)
\* the floor of market_clear, 1e-6
Epsilon == 1

market_init(init_price, liquidity, impact_coefficient, volatility_decay, max_price_change) ==
    [price |-> init_price,
     last_price |-> init_price,
     liquidity |-> liquidity,
     impact_coefficient |-> impact_coefficient,
     volatility |-> 0,
     volatility_decay |-> volatility_decay,
     cumulative_demand |-> 0,
     cumulative_volume |-> 0,
     time |-> 0,
     max_price_change |-> max_price_change,
     trading_halted |-> FALSE]

\* mutant: the step counter is reset with the per-step accumulators
market_begin_step_resets_time(mk) ==
    [mk EXCEPT !.cumulative_demand = 0, !.cumulative_volume = 0, !.time = 0]

market_begin_step(mk) ==
    [mk EXCEPT !.cumulative_demand = 0, !.cumulative_volume = 0]

\* mutant: the volume is netted like the demand
market_add_demand_nets_volume(mk, signed_demand) ==
    [mk EXCEPT !.cumulative_demand = @ + signed_demand,
               !.cumulative_volume = @ + signed_demand]

\* mutant: the price moves as soon as a demand is added
market_add_demand_moves_price(mk, signed_demand) ==
    [mk EXCEPT !.cumulative_demand = @ + signed_demand,
               !.cumulative_volume = @ + Abs(signed_demand),
               !.price = @ + Mul(mk.impact_coefficient, Div(signed_demand, mk.liquidity))]

\* mutant: a halted market takes no order flow
market_add_demand_unless_halted(mk, signed_demand) ==
    IF mk.trading_halted THEN mk
    ELSE [mk EXCEPT !.cumulative_demand = @ + signed_demand,
                    !.cumulative_volume = @ + Abs(signed_demand)]

market_add_demand(mk, signed_demand) ==
    [mk EXCEPT !.cumulative_demand = @ + signed_demand,
               !.cumulative_volume = @ + Abs(signed_demand)]

\* the price move of market_clear before the floor
ClearedPrice(mk) ==
    LET normalized_flow == Div(mk.cumulative_demand, mk.liquidity)
        raw == Mul(mk.impact_coefficient, normalized_flow)
    IN  mk.price + (IF raw > mk.max_price_change THEN mk.max_price_change
                    ELSE IF raw < -mk.max_price_change THEN -mk.max_price_change
                    ELSE raw)

\* mutant: the floor is missing
market_clear_no_floor(mk) ==
    IF mk.trading_halted THEN mk
    ELSE [mk EXCEPT !.last_price = mk.price,
                    !.price = ClearedPrice(mk),
                    !.time = @ + 1]

\* mutant: the halt test comes after the bookkeeping
market_clear_late_halt_test(mk) ==
    LET moved == ClearedPrice(mk)
    IN  IF mk.trading_halted
        THEN [mk EXCEPT !.last_price = mk.price, !.time = @ + 1]
        ELSE [mk EXCEPT !.last_price = mk.price,
                        !.price = IF moved < Epsilon THEN Epsilon ELSE moved,
                        !.time = @ + 1]

\* mutant: the lower clamp tests against +max_price_change, so it never fires
market_clear_no_lower_clamp(mk) ==
    IF mk.trading_halted THEN mk
    ELSE LET normalized_flow == Div(mk.cumulative_demand, mk.liquidity)
             raw == Mul(mk.impact_coefficient, normalized_flow)
             raw_price_change ==
                 IF raw > mk.max_price_change THEN mk.max_price_change ELSE raw
             moved == mk.price + raw_price_change
         IN  [mk EXCEPT !.last_price = mk.price,
                        !.price = IF moved < Epsilon THEN Epsilon ELSE moved,
                        !.time = @ + 1]

\* mutant: the upper clamp is missing
market_clear_no_upper_clamp(mk) ==
    IF mk.trading_halted THEN mk
    ELSE LET normalized_flow == Div(mk.cumulative_demand, mk.liquidity)
             raw == Mul(mk.impact_coefficient, normalized_flow)
             raw_price_change ==
                 IF raw < -mk.max_price_change THEN -mk.max_price_change ELSE raw
             moved == mk.price + raw_price_change
         IN  [mk EXCEPT !.last_price = mk.price,
                        !.price = IF moved < Epsilon THEN Epsilon ELSE moved,
                        !.time = @ + 1]

\* mutant: last_price is not refreshed
market_clear_keeps_last_price(mk) ==
    IF mk.trading_halted THEN mk
    ELSE LET normalized_flow == Div(mk.cumulative_demand, mk.liquidity)
             raw == Mul(mk.impact_coefficient, normalized_flow)
             raw_price_change ==
                 IF raw > mk.max_price_change THEN mk.max_price_change
                 ELSE IF raw < -mk.max_price_change THEN -mk.max_price_change
                 ELSE raw
             moved == mk.price + raw_price_change
         IN  [mk EXCEPT !.price = IF moved < Epsilon THEN Epsilon ELSE moved,
                        !.time = @ + 1]

\* the Market after market_clear; the value returned is its price
market_clear(mk) ==
    IF mk.trading_halted THEN mk
    ELSE LET excess_demand == mk.cumulative_demand
             normalized_flow == Div(excess_demand, mk.liquidity)
             raw == Mul(mk.impact_coefficient, normalized_flow)
             raw_price_change ==
                 IF raw > mk.max_price_change THEN mk.max_price_change
                 ELSE IF raw < -mk.max_price_change THEN -mk.max_price_change
                 ELSE raw
             moved == mk.price + raw_price_change
         IN  [mk EXCEPT !.last_price = mk.price,
                        !.price = IF moved < Epsilon THEN Epsilon ELSE moved,
                        !.time = @ + 1]

\* mutant: a halted market reports a return of 0
market_log_return_zero_when_halted(mk) ==
    IF mk.trading_halted \/ mk.last_price <= 0 \/ mk.price <= 0 THEN 0
    ELSE Ln(mk.price) - Ln(mk.last_price)

\* log(price / last_price), taken as log(price) - log(last_price)
market_log_return(mk) ==
    IF mk.last_price <= 0 \/ mk.price <= 0 THEN 0
    ELSE Ln(mk.price) - Ln(mk.last_price)

market_update_volatility(mk) ==
    LET r == market_log_return(mk)
        r2 == Mul(r, r)
    IN  [mk EXCEPT !.volatility =
            Mul(mk.volatility_decay, mk.volatility)
            + Mul(One - mk.volatility_decay, r2)]

\* mutant: the flag is flipped
market_halt_toggles(mk) == [mk EXCEPT !.trading_halted = ~@]

market_halt(mk) == [mk EXCEPT !.trading_halted = TRUE]

\* mutant: the flag is set instead of cleared
market_resume_sets_flag(mk) == [mk EXCEPT !.trading_halted = TRUE]

market_resume(mk) == [mk EXCEPT !.trading_halted = FALSE]

(***************************************************************************)
(* Agent (core/agent.h, core/agent.c)                                      *)
(***************************************************************************)
AGENT_RETAIL == 0
AGENT_INSTITUTION == 1
AGENT_NOISE == 2

\* a uint64_t is the set of the positions of its 1 bits, 0 the lowest
WordBits == 0 .. 63

Shl(x, k) == {i + k : i \in {j \in x : j + k <= 63}}
Shr(x, k) == {i - k : i \in {j \in x : j >= k}}
Xor(x, y) == (x \ y) \cup (y \ x)

\* the uint64_t of a non-negative int
RECURSIVE BitsFrom(_, _)
BitsFrom(n, i) ==
    IF n = 0 THEN {}
    ELSE (IF n % 2 = 1 THEN {i} ELSE {}) \cup BitsFrom(n \div 2, i + 1)

ToUint64(n) == BitsFrom(n, 0)

\* the three xorshift64 steps of normal_random
xorshift64(x) ==
    LET x1 == Xor(x, Shl(x, 13))
        x2 == Xor(x1, Shr(x1, 7))
    IN  Xor(x2, Shl(x2, 17))

\* the top three bits of the 32-bit word of x whose highest bit is at top
Octile(x, top) ==
    4 * (IF top \in x THEN 1 ELSE 0)
    + 2 * (IF (top - 1) \in x THEN 1 ELSE 0)
    + (IF (top - 2) \in x THEN 1 ELSE 0)

\* sqrt(-2 log(u1)) by the octile of u1, taken at the middle of the octile
BoxMullerRadius == <<2354820, 1829741, 1525222, 1285829, 1072720, 865671, 644421, 359273>>

\* sqrt(-2 log(1e-12)): u1 is below 1e-12 exactly when the low word is 0
BoxMullerRadiusAtFloor == 7433844

\* cos(2 pi u2) by the octile of u2, taken at the lower edge of the octile
BoxMullerCos == <<1000000, 707107, 0, -707107, -1000000, -707107, 0, 707107>>

\* normal_random: the state after the call and the value returned
normal_random(state) ==
    LET x == xorshift64(state)
        radius == IF x \cap (0 .. 31) = {} THEN BoxMullerRadiusAtFloor
                  ELSE BoxMullerRadius[Octile(x, 31) + 1]
    IN  [state |-> x, value |-> Mul(radius, BoxMullerCos[Octile(x, 63) + 1])]

\* agent_init; the name is a label only and is left out, neighbors = NULL is <<>>
agent_init(id, type, init_price, aggressiveness, trade_size_scale, risk_aversion, liquidity_tolerance, belief_update_rate, network_influence, noise_std, fundamental_anchor, rng_seed) ==
    [id |-> id,
     type |-> type,
     belief |-> init_price,
     belief_update_rate |-> belief_update_rate,
     aggressiveness |-> aggressiveness,
     trade_size_scale |-> trade_size_scale,
     risk_aversion |-> risk_aversion,
     liquidity_tolerance |-> liquidity_tolerance,
     network_influence |-> network_influence,
     neighbors |-> <<>>,
     neighbor_count |-> 0,
     position |-> 0,
     cash |-> [hi |-> 0, lo |-> 0],
     noise_std |-> noise_std,
     fundamental_anchor |-> fundamental_anchor,
     rng_state |-> rng_seed,
     passive_only |-> FALSE]

\* p / (1 + |p|)
position_penalty(position) == Div(position, 1 + Abs(position))

\* agent_compute_demand: the demand returned, and the agent, whose rng_state the
\* call advances through the cast of agent.c:112
agent_compute_demand(a, market_price, global_shock, avg_neighbor_belief) ==
    LET signal0 == a.belief - market_price
        signal == IF a.type = AGENT_INSTITUTION
                  THEN signal0 + Mul(500000, a.fundamental_anchor - market_price)
                  ELSE signal0
        inventory_cost == Mul(a.risk_aversion, position_penalty(a.position))
        herding == IF a.neighbor_count > 0
                   THEN Mul(a.network_influence, avg_neighbor_belief - a.belief)
                   ELSE 0
        draw == normal_random(a.rng_state)
        noise == Mul(a.noise_std, draw.value)
        raw_demand == Mul(a.aggressiveness, signal) - inventory_cost + herding
                      + noise + global_shock
    IN  [demand |-> IF Abs(raw_demand) < a.liquidity_tolerance THEN 0
                    ELSE Mul(a.trade_size_scale, raw_demand),
         agent |-> [a EXCEPT !.rng_state = draw.state]]

\* cash - executed_quantity * execution_price on the two limbs of cash
\* (hi whole units, 0 <= lo < One millionths)
CashMinus(cash, executed_quantity, execution_price) ==
    LET t == cash.lo - executed_quantity * (execution_price % One)
    IN  [hi |-> cash.hi - executed_quantity * (execution_price \div One) + (t \div One),
         lo |-> t % One]

\* mutant: cash is charged for the whole position, not for the executed quantity
agent_apply_execution_charges_position(a, executed_quantity, execution_price) ==
    [a EXCEPT !.position = @ + executed_quantity,
              !.cash = CashMinus(@, a.position + executed_quantity, execution_price)]

agent_apply_execution(a, executed_quantity, execution_price) ==
    [a EXCEPT !.position = @ + executed_quantity,
              !.cash = CashMinus(@, executed_quantity, execution_price)]

\* mutant: the step towards the target is taken twice
agent_update_belief_overshoots(a, observed_price, global_shock, avg_market_signal) ==
    LET target == IF a.type = AGENT_INSTITUTION
                  THEN Mul(700000, observed_price) + Mul(300000, a.fundamental_anchor)
                  ELSE observed_price
        b1 == a.belief + 2 * Mul(a.belief_update_rate, target - a.belief)
    IN  [a EXCEPT !.belief = b1 + Mul(100000, global_shock)]

\* mutant: the inventory is written off when the belief is updated
agent_update_belief_liquidates(a, observed_price, global_shock, avg_market_signal) ==
    LET target == IF a.type = AGENT_INSTITUTION
                  THEN Mul(700000, observed_price) + Mul(300000, a.fundamental_anchor)
                  ELSE observed_price
        b1 == a.belief + Mul(a.belief_update_rate, target - a.belief)
    IN  [a EXCEPT !.belief = b1 + Mul(100000, global_shock), !.position = 0]

agent_update_belief(a, observed_price, global_shock, avg_market_signal) ==
    LET target == IF a.type = AGENT_INSTITUTION
                  THEN Mul(700000, observed_price) + Mul(300000, a.fundamental_anchor)
                  ELSE observed_price
        b1 == a.belief + Mul(a.belief_update_rate, target - a.belief)
    IN  [a EXCEPT !.belief = b1 + Mul(100000, global_shock)]

agent_apply_shock(a, shock_strength) ==
    IF a.type = AGENT_RETAIL
    THEN [a EXCEPT !.belief = @ + Mul(1200000, shock_strength)]
    ELSE IF a.type = AGENT_INSTITUTION
    THEN [a EXCEPT !.belief = @ + Mul(400000, shock_strength)]
    ELSE LET draw == normal_random(a.rng_state)
         IN  [a EXCEPT !.belief = @ + Mul(shock_strength, draw.value),
                       !.rng_state = draw.state]

(***************************************************************************)
(* Information diffusion (shocks/information_flow.c).  A population is a   *)
(* function from the indices 0 .. n-1 to agents.                           *)
(***************************************************************************)
MAX_PROPAGATION_STEPS == 3
BASE_ATTENTION == 600000

\* 1e-9 in millionths, truncated: |shock| < 1e-9 is |shock| <= 0 at this scale
NegligibleShock == 0

\* mutant: every type weighs the news alike
attention_weight_flat(type) == One

attention_weight(type) ==
    IF type = AGENT_RETAIL THEN 1200000
    ELSE IF type = AGENT_INSTITUTION THEN 600000
    ELSE 900000

\* exp(-0.8 * step) for the steps 1 .. MAX_PROPAGATION_STEPS
TemporalDecayTable == <<449329, 201897, 90718>>

temporal_decay(step) == TemporalDecayTable[step]

\* a sum divided by a count (a double by a size_t)
DivCount(x, n) == Sgn(x) * (Abs(x) \div n)

RECURSIVE SumSignals(_, _, _)
SumSignals(local_signal, neighbors, k) ==
    IF k = 0 THEN 0
    ELSE SumSignals(local_signal, neighbors, k - 1) + local_signal[neighbors[k]]

\* mutant: the agent adds what it received to its local_signal at once
VisitAgent_in_place(agents, buffers, decay, i) ==
    IF agents[i].neighbor_count = 0 THEN buffers
    ELSE LET neighbor_avg ==
                 DivCount(SumSignals(buffers.local_signal, agents[i].neighbors,
                                     agents[i].neighbor_count),
                          agents[i].neighbor_count)
         IN  [buffers EXCEPT !.local_signal[i] =
                 @ + Mul(Mul(decay, agents[i].network_influence), neighbor_avg)]

\* mutant: the agent also passes its own signal on to the neighbors it lists
VisitAgent_both_ways(agents, buffers, decay, i) ==
    IF agents[i].neighbor_count = 0 THEN buffers
    ELSE LET neighbor_avg ==
                 DivCount(SumSignals(buffers.local_signal, agents[i].neighbors,
                                     agents[i].neighbor_count),
                          agents[i].neighbor_count)
             listed == {agents[i].neighbors[k] : k \in 1 .. agents[i].neighbor_count}
         IN  [buffers EXCEPT !.next_signal =
                 [j \in DOMAIN agents |->
                     IF j = i
                     THEN @[j] + Mul(Mul(decay, agents[i].network_influence), neighbor_avg)
                     ELSE IF j \in listed
                          THEN @[j] + Mul(decay, buffers.local_signal[i])
                          ELSE @[j]]]

\* the body of the loop over the agents within a step: agent i reads the
\* local_signal of its neighbors and adds to next_signal[i]
VisitAgent(agents, buffers, decay, i) ==
    IF agents[i].neighbor_count = 0 THEN buffers
    ELSE LET neighbor_avg ==
                 DivCount(SumSignals(buffers.local_signal, agents[i].neighbors,
                                     agents[i].neighbor_count),
                          agents[i].neighbor_count)
         IN  [buffers EXCEPT !.next_signal[i] =
                 @ + Mul(Mul(decay, agents[i].network_influence), neighbor_avg)]

RECURSIVE VisitAgents(_, _, _, _, _)
VisitAgents(agents, buffers, decay, order, k) ==
    IF k > Len(order) THEN buffers
    ELSE VisitAgents(agents, VisitAgent(agents, buffers, decay, order[k]),
                     decay, order, k + 1)

\* one pass of the step loop with the agents visited in the given order, then
\* the loop "accumulate and reset": local_signal += next_signal
PropagationRound(agents, local_signal, step, order) ==
    LET b == VisitAgents(agents,
                         [local_signal |-> local_signal,
                          next_signal |-> [i \in DOMAIN agents |-> 0]],
                         temporal_decay(step), order, 1)
    IN  [i \in DOMAIN agents |-> b.local_signal[i] + b.next_signal[i]]

\* for (i = 0; i < n_agents; i++)
IndexOrder(agents) == [k \in 1 .. Cardinality(DOMAIN agents) |-> k - 1]

\* one pass of the step loop as the code runs it
PropagationStep(agents, local_signal, step) ==
    PropagationRound(agents, local_signal, step, IndexOrder(agents))

RECURSIVE PropagationSteps(_, _, _)
PropagationSteps(agents, local_signal, step) ==
    IF step > MAX_PROPAGATION_STEPS THEN local_signal
    ELSE PropagationSteps(agents, PropagationStep(agents, local_signal, step), step + 1)

\* the local signals after step 0 (direct exposure)
DirectExposure(agents, global_shock) ==
    [i \in DOMAIN agents |->
        Mul(Mul(BASE_ATTENTION, attention_weight(agents[i].type)), global_shock)]

\* mutant: no early return, and the direct exposure adds the shock to the
\* attention instead of scaling the attention by it
information_propagate_adds_shock(agents, global_shock) ==
    LET direct == [i \in DOMAIN agents |->
                      Mul(BASE_ATTENTION, attention_weight(agents[i].type))
                      + global_shock]
        local_signal == PropagationSteps(agents, direct, 1)
    IN  [i \in DOMAIN agents |->
            [agents[i] EXCEPT !.belief = @ + local_signal[i]]]

information_propagate(agents, global_shock) ==
    IF Abs(global_shock) <= NegligibleShock THEN agents
    ELSE LET local_signal ==
                 PropagationSteps(agents, DirectExposure(agents, global_shock), 1)
         IN  [i \in DOMAIN agents |->
                 [agents[i] EXCEPT !.belief = @ + local_signal[i]]]

(***************************************************************************)
(* News process (shocks/news.c).  The file-scope rng_state and regime are  *)
(* one record.  uniform_random returns k * 2^-53 for k = x >> 11; a double *)
(* it is compared with is kept as floor(p * 2^53), and none of the doubles *)
(* of news.c (0.002, 0.01, 0.05, 1e-12) is a multiple of 2^-53.            *)
(***************************************************************************)
\* a uint64_t from chunks of 22, 21 and 21 bits, the highest first
Word(hi, mid, lo) == BitsFrom(hi, 42) \cup BitsFrom(mid, 21) \cup BitsFrom(lo, 0)

\* a < b for two uint64_t
Below(a, b) ==
    LET d == Xor(a, b)
    IN  d # {} /\ (CHOOSE i \in d : \A j \in d : j <= i) \in b

\* k * 2^-53 < p and k * 2^-53 > p, for p given as floor(p * 2^53)
UniformBelow(k, p) == k = p \/ Below(k, p)
UniformAbove(k, p) == Below(p, k)

\* 0.002 and 0.01, the initializers of the static NewsRegime
P_SWITCH_TO_STRESS == Word(4, 201326, 1241513)
P_SWITCH_TO_CALM == Word(20, 1006632, 2013265)

\* arrival_prob: 0.01 in regime 0, 0.05 in regime 1
ARRIVAL_CALM == Word(20, 1006632, 2013265)
ARRIVAL_STRESSED == Word(102, 838860, 1677721)

\* scale: 2.0 in regime 0, 8.0 in regime 1
SCALE_CALM == 2 * One
SCALE_STRESSED == 8 * One

\* 1e-12, the floor of the first draw of heavy_tail_shock
TINY_UNIFORM == Word(0, 0, 9007)

\* cos(2 pi u) by the octile of u, taken at the middle of the octile
HeavyTailCos == <<923880, 382683, -382683, -923880, -923880, -382683, 382683, 923880>>

\* 1 / sqrt(u) by the octile of u, taken at the middle of the octile
InvSqrtUniform == <<4000000, 2309401, 1788854, 1511858, 1333333, 1206045, 1109400, 1032796>>

\* the magnitude of x / sqrt(0.0) for x # 0
Infinity == 2147483647

\* the state of news.c when the program starts
NewsStatic ==
    [rng_state |-> Word(20048, 290397, 2062916),
     regime |-> 0,
     p_switch_to_stress |-> P_SWITCH_TO_STRESS,
     p_switch_to_calm |-> P_SWITCH_TO_CALM]

\* uniform_random of news.c: the state after the call, k = x >> 11 and the
\* octile of the value
news_uniform_random(n) ==
    LET x == xorshift64(n.rng_state)
    IN  [news |-> [n EXCEPT !.rng_state = x], k |-> Shr(x, 11), octile |-> Octile(x, 63)]

\* heavy_tail_shock: three draws, scale * z / sqrt(u)
heavy_tail_shock(n, scale) ==
    LET u == news_uniform_random(n)
        c == news_uniform_random(u.news)
        d == news_uniform_random(c.news)
        radius == IF UniformBelow(u.k, TINY_UNIFORM) THEN BoxMullerRadiusAtFloor
                  ELSE BoxMullerRadius[u.octile + 1]
        z == Mul(radius, HeavyTailCos[c.octile + 1])
    IN  [news |-> d.news,
         value |-> IF d.k = {} THEN Sgn(z) * Infinity
                   ELSE Mul(Mul(scale, z), InvSqrtUniform[d.octile + 1])]

news_seed(n, seed) == [n EXCEPT !.rng_state = seed]

\* mutant: a stressed regime never returns to calm
news_generate_shock_stays_stressed(n) ==
    LET t == news_uniform_random(n)
        regime == IF n.regime = 0
                  THEN (IF UniformBelow(t.k, n.p_switch_to_stress) THEN 1 ELSE 0)
                  ELSE 1
        a == news_uniform_random([t.news EXCEPT !.regime = regime])
        shock == heavy_tail_shock(a.news, IF regime = 0 THEN SCALE_CALM ELSE SCALE_STRESSED)
    IN  IF UniformAbove(a.k, IF regime = 0 THEN ARRIVAL_CALM ELSE ARRIVAL_STRESSED)
        THEN [news |-> a.news, value |-> 0, fired |-> FALSE, first |-> t.k, second |-> a.k]
        ELSE [news |-> shock.news, value |-> shock.value, fired |-> TRUE,
              first |-> t.k, second |-> a.k]

\* mutant: the arrival test uses the stressed intensity in both regimes
news_generate_shock_one_intensity(n) ==
    LET t == news_uniform_random(n)
        regime == IF n.regime = 0
                  THEN (IF UniformBelow(t.k, n.p_switch_to_stress) THEN 1 ELSE 0)
                  ELSE (IF UniformBelow(t.k, n.p_switch_to_calm) THEN 0 ELSE 1)
        a == news_uniform_random([t.news EXCEPT !.regime = regime])
        shock == heavy_tail_shock(a.news, IF regime = 0 THEN SCALE_CALM ELSE SCALE_STRESSED)
    IN  IF UniformAbove(a.k, ARRIVAL_STRESSED)
        THEN [news |-> a.news, value |-> 0, fired |-> FALSE, first |-> t.k, second |-> a.k]
        ELSE [news |-> shock.news, value |-> shock.value, fired |-> TRUE,
              first |-> t.k, second |-> a.k]

\* news_generate_shock: the state after the call, the value returned, whether
\* a magnitude was drawn, and the two draws every call makes
news_generate_shock(n) ==
    LET t == news_uniform_random(n)
        regime == IF n.regime = 0
                  THEN (IF UniformBelow(t.k, n.p_switch_to_stress) THEN 1 ELSE 0)
                  ELSE (IF UniformBelow(t.k, n.p_switch_to_calm) THEN 0 ELSE 1)
        arrival_prob == IF regime = 0 THEN ARRIVAL_CALM ELSE ARRIVAL_STRESSED
        a == news_uniform_random([t.news EXCEPT !.regime = regime])
        scale == IF regime = 0 THEN SCALE_CALM ELSE SCALE_STRESSED
        shock == heavy_tail_shock(a.news, scale)
    IN  IF UniformAbove(a.k, arrival_prob)
        THEN [news |-> a.news, value |-> 0, fired |-> FALSE, first |-> t.k, second |-> a.k]
        ELSE [news |-> shock.news, value |-> shock.value, fired |-> TRUE,
              first |-> t.k, second |-> a.k]

news_current_regime(n) == n.regime

\* the variables of the news API while it is not driven
NewsIdle ==
    /\ news = NewsStatic
    /\ ncall = [fn |-> "none"]
    /\ nnops = 0

(***************************************************************************)
(* Spec: one Market driven by any sequence of calls of the market API.     *)
(***************************************************************************)
MaxOps == 6

\* market_init arguments: those of main() (simulation.c:117-122), and the
\* same market opened at a price one clamped move above the floor
MarketConfigs ==
    {[init_price |-> p * One, liquidity |-> 1200 * Kilo,
      impact_coefficient |-> One, volatility_decay |-> 940 * Kilo,
      max_price_change |-> 5 * One] : p \in {100, 7}}

\* arguments of market_add_demand: under and over the clamp, both signs
Demands == {600 * Kilo, -600 * Kilo, 10000 * Kilo, -10000 * Kilo}

\* the variables of the driver while main() is not run
SimIdle ==
    /\ w = <<>>
    /\ w2 = <<>>

\* the variables of the agent API while it is not driven
AgentIdle ==
    /\ population = <<>>
    /\ acall = [fn |-> "none"]
    /\ aret = 0
    /\ anops = 0
    /\ sumq = <<>>
    /\ notional = <<>>

Init ==
    /\ AgentIdle
    /\ SimIdle
    /\ NewsIdle
    /\ \E c \in MarketConfigs :
          m = market_init(c.init_price, c.liquidity, c.impact_coefficient,
                          c.volatility_decay, c.max_price_change)
    /\ op = "market_init"
    /\ ret = 0
    /\ nops = 0
    /\ nclears = 0
    /\ resumed = FALSE
    /\ was_halted = FALSE
    /\ flow = [signed |-> 0, volume |-> 0]

BeginStep ==
    /\ nops < MaxOps
    /\ UNCHANGED <<agentVars, simVars, newsVars>>
    /\ m' = market_begin_step(m)
    /\ op' = "market_begin_step"
    /\ was_halted' = m.trading_halted
    /\ flow' = [signed |-> 0, volume |-> 0]
    /\ nops' = nops + 1
    /\ UNCHANGED <<ret, nclears, resumed>>

AddDemand ==
    /\ nops < MaxOps
    /\ UNCHANGED <<agentVars, simVars, newsVars>>
    /\ \E d \in Demands :
          /\ m' = market_add_demand(m, d)
          /\ flow' = [signed |-> flow.signed + d, volume |-> flow.volume + Abs(d)]
    /\ op' = "market_add_demand"
    /\ was_halted' = m.trading_halted
    /\ nops' = nops + 1
    /\ UNCHANGED <<ret, nclears, resumed>>

Clear ==
    /\ nops < MaxOps
    /\ UNCHANGED <<agentVars, simVars, newsVars>>
    /\ m' = market_clear(m)
    /\ ret' = m'.price
    /\ op' = "market_clear"
    /\ was_halted' = m.trading_halted
    /\ UNCHANGED flow
    /\ nops' = nops + 1
    /\ nclears' = IF m.trading_halted THEN nclears ELSE nclears + 1
    /\ UNCHANGED resumed

LogReturn ==
    /\ nops < MaxOps
    /\ UNCHANGED <<agentVars, simVars, newsVars>>
    /\ ret' = market_log_return(m)
    /\ op' = "market_log_return"
    /\ was_halted' = m.trading_halted
    /\ UNCHANGED flow
    /\ nops' = nops + 1
    /\ UNCHANGED <<m, nclears, resumed>>

UpdateVolatility ==
    /\ nops < MaxOps
    /\ UNCHANGED <<agentVars, simVars, newsVars>>
    /\ m' = market_update_volatility(m)
    /\ op' = "market_update_volatility"
    /\ was_halted' = m.trading_halted
    /\ UNCHANGED flow
    /\ nops' = nops + 1
    /\ UNCHANGED <<ret, nclears, resumed>>

Halt ==
    /\ nops < MaxOps
    /\ UNCHANGED <<agentVars, simVars, newsVars>>
    /\ m' = market_halt(m)
    /\ op' = "market_halt"
    /\ was_halted' = m.trading_halted
    /\ UNCHANGED flow
    /\ nops' = nops + 1
    /\ resumed' = FALSE
    /\ UNCHANGED <<ret, nclears>>

Resume ==
    /\ nops < MaxOps
    /\ UNCHANGED <<agentVars, simVars, newsVars>>
    /\ m' = market_resume(m)
    /\ op' = "market_resume"
    /\ was_halted' = m.trading_halted
    /\ UNCHANGED flow
    /\ nops' = nops + 1
    /\ resumed' = (resumed \/ m.trading_halted)
    /\ UNCHANGED <<ret, nclears>>

Next ==
    \/ BeginStep
    \/ AddDemand
    \/ Clear
    \/ LogReturn
    \/ UpdateVolatility
    \/ Halt
    \/ Resume

Spec == Init /\ [][Next]_vars

(***************************************************************************)
(* SpecConfig: the market API on a Market that market_init built from any  *)
(* arguments, the non-positive ones included.  A liquidity of exactly 0 is *)
(* left out: market_clear then divides by zero and the price becomes an    *)
(* infinity or a NaN, which the fixed-point numbers do not hold.           *)
(***************************************************************************)
AnyMarketConfigs ==
    MarketConfigs
    \cup {[init_price |-> p * One, liquidity |-> 1200 * Kilo,
           impact_coefficient |-> One, volatility_decay |-> 940 * Kilo,
           max_price_change |-> 5 * One] : p \in {0, -5}}
    \cup {[init_price |-> 100 * One, liquidity |-> -1200 * Kilo,
           impact_coefficient |-> One, volatility_decay |-> 940 * Kilo,
           max_price_change |-> 5 * One]}

InitConfig ==
    /\ AgentIdle
    /\ SimIdle
    /\ NewsIdle
    /\ \E c \in AnyMarketConfigs :
          m = market_init(c.init_price, c.liquidity, c.impact_coefficient,
                          c.volatility_decay, c.max_price_change)
    /\ op = "market_init"
    /\ ret = 0
    /\ nops = 0
    /\ nclears = 0
    /\ resumed = FALSE
    /\ was_halted = FALSE
    /\ flow = [signed |-> 0, volume |-> 0]

SpecConfig == InitConfig /\ [][Next]_vars

(***************************************************************************)
(* SpecAgent: a population of one agent of each type, with the parameters  *)
(* main() gives the type, driven by any sequence of calls of the agent API *)
(* and of information_propagate.                                           *)
(***************************************************************************)
MaxAgentOps == 3

INITIAL_PRICE == 100 * One

\* initialize_agents: aggressiveness, risk_aversion, network_influence, noise_std
TypeParams(type) ==
    IF type = AGENT_RETAIL
    THEN [aggressiveness |-> One, risk_aversion |-> 200000,
          network_influence |-> 700000, noise_std |-> 600000]
    ELSE IF type = AGENT_INSTITUTION
    THEN [aggressiveness |-> 500000, risk_aversion |-> 800000,
          network_influence |-> 100000, noise_std |-> 200000]
    ELSE [aggressiveness |-> 200000, risk_aversion |-> 100000,
          network_influence |-> 0, noise_std |-> One]

\* the agent_init call of initialize_agents
NewAgent(i, type, rng_seed) ==
    LET p == TypeParams(type)
    IN  agent_init(i, type, INITIAL_PRICE, p.aggressiveness, One, p.risk_aversion,
                   20000, 50000, p.network_influence, p.noise_std, INITIAL_PRICE,
                   ToUint64(rng_seed))

\* neighbor lists the caller may set after agent_init: none, a directed chain,
\* a star around agent 0
Graphs ==
    {[i \in 0 .. 2 |-> <<>>],
     [i \in 0 .. 2 |-> IF i = 0 THEN <<1>> ELSE IF i = 1 THEN <<2>> ELSE <<>>],
     [i \in 0 .. 2 |-> IF i = 0 THEN <<1, 2>> ELSE <<0>>]}

\* rng_seed arguments: zero, and a seed with bits in both words after a step
Seeds == {0, 12345}

Qtys == {-3, 2}
ExecPrices == {99 * One, 100 * One + 500000}
Shocks == {0, -2 * One - 500000}
ObservedPrices == {101 * One}

InitAgent ==
    /\ SimIdle
    /\ NewsIdle
    /\ m = market_init(INITIAL_PRICE, 1200 * Kilo, One, 940 * Kilo, 5 * One)
    /\ op = "market_init"
    /\ ret = 0
    /\ nops = 0
    /\ nclears = 0
    /\ resumed = FALSE
    /\ was_halted = FALSE
    /\ flow = [signed |-> 0, volume |-> 0]
    /\ \E g \in Graphs, s \in Seeds :
          population = [i \in 0 .. 2 |->
                       [NewAgent(i, i, s) EXCEPT !.neighbors = g[i],
                                                 !.neighbor_count = Len(g[i])]]
    /\ acall = [fn |-> "agent_init"]
    /\ aret = 0
    /\ anops = 0
    /\ sumq = [i \in 0 .. 2 |-> 0]
    /\ notional = [i \in 0 .. 2 |-> [units |-> 0, millionths |-> 0]]

ComputeDemand ==
    /\ anops < MaxAgentOps
    /\ \E i \in DOMAIN population, s \in Shocks :
          LET r == agent_compute_demand(population[i], m.price, s, INITIAL_PRICE)
          IN  /\ population' = [population EXCEPT ![i] = r.agent]
              /\ aret' = r.demand
              /\ acall' = [fn |-> "agent_compute_demand", agent |-> i, shock |-> s]
    /\ anops' = anops + 1
    /\ UNCHANGED <<sumq, notional, marketVars, simVars, newsVars>>

ApplyExecution ==
    /\ anops < MaxAgentOps
    /\ \E i \in DOMAIN population, q \in Qtys, p \in ExecPrices :
          /\ population' = [population EXCEPT ![i] = agent_apply_execution(@, q, p)]
          /\ sumq' = [sumq EXCEPT ![i] = @ + q]
          /\ notional' = [notional EXCEPT
                             ![i].units = @ + q * (p \div One),
                             ![i].millionths = @ + q * (p % One)]
          /\ acall' = [fn |-> "agent_apply_execution", agent |-> i,
                       qty |-> q, price |-> p]
    /\ anops' = anops + 1
    /\ UNCHANGED <<aret, marketVars, simVars, newsVars>>

UpdateBelief ==
    /\ anops < MaxAgentOps
    /\ \E i \in DOMAIN population, p \in ObservedPrices, s \in Shocks :
          /\ population' = [population EXCEPT
                           ![i] = agent_update_belief(@, p, s, INITIAL_PRICE)]
          /\ acall' = [fn |-> "agent_update_belief", agent |-> i, shock |-> s]
    /\ anops' = anops + 1
    /\ UNCHANGED <<aret, sumq, notional, marketVars, simVars, newsVars>>

ApplyShock ==
    /\ anops < MaxAgentOps
    /\ \E i \in DOMAIN population, s \in Shocks \ {0} :
          /\ population' = [population EXCEPT ![i] = agent_apply_shock(@, s)]
          /\ acall' = [fn |-> "agent_apply_shock", agent |-> i, shock |-> s]
    /\ anops' = anops + 1
    /\ UNCHANGED <<aret, sumq, notional, marketVars, simVars, newsVars>>

Propagate ==
    /\ anops < MaxAgentOps
    /\ \E s \in Shocks :
          /\ population' = information_propagate(population, s)
          /\ acall' = [fn |-> "information_propagate", shock |-> s]
    /\ anops' = anops + 1
    /\ UNCHANGED <<aret, sumq, notional, marketVars, simVars, newsVars>>

NextAgent ==
    \/ ComputeDemand
    \/ ApplyExecution
    \/ UpdateBelief
    \/ ApplyShock
    \/ Propagate

SpecAgent == InitAgent /\ [][NextAgent]_vars

(***************************************************************************)
(* The driver (core/simulation.c).  A run is a record: the locals of       *)
(* main(), the state of rand(), the position in main(), the lines written  *)
(* to prices.csv, and what the run has done in the current step.           *)
(***************************************************************************)
\* the population and the number of steps, scaled down (400 and 3000 in main)
NUM_AGENTS == 2
TIME_STEPS == 18

\* INITIAL_LIQUIDITY / NUM_AGENTS, 1200 / 400: the depth per agent is kept when
\* the population is scaled down
LiquidityPerAgent == 3
INITIAL_LIQUIDITY == LiquidityPerAgent * NUM_AGENTS * Kilo

RAND_MAX == 2147483647

\* values time(NULL) may return when main() starts
ClockValues == {0, 1, 2}

\* rand() after srand(seed): libc decides the stream, the same for the same
\* seed.  Three streams stand for it, each repeated from its start: one of
\* zeros, one of RAND_MAX, one that mixes agent types, seeds and shocks.
RandStream(seed) ==
    IF seed % 3 = 0 THEN <<0>>
    ELSE IF seed % 3 = 1 THEN <<RAND_MAX>>
    ELSE <<1503238553, 12345, 429496729, 0, 21474836, 1932735282,
           1073741823, 10737418, 214748364>>

srand(seed) == [seed |-> seed, calls |-> 0]

\* rand(): the state after the call and the value returned
rand(state) ==
    LET stream == RandStream(state.seed)
    IN  [state |-> [state EXCEPT !.calls = @ + 1],
         value |-> stream[(state.calls % Len(stream)) + 1]]

\* uniform_random of simulation.c: rand() / (double)RAND_MAX
sim_uniform_random(state) ==
    LET r == rand(state)
    IN  [state |-> r.state, value |-> Div(r.value, RAND_MAX)]

\* generate_news_shock: the state of rand() after the call and the shock
generate_news_shock(state) ==
    LET p == sim_uniform_random(state)
        u == sim_uniform_random(p.state)
    IN  IF p.value < 15000
        THEN [state |-> u.state, value |-> Mul(u.value - 500000, 12 * One)]
        ELSE [state |-> p.state, value |-> 0]

\* (int)round(demand)
RoundToInt(x) == Sgn(x) * ((Abs(x) + 500000) \div One)

\* a demand in millionths as the thousandths the Market accumulates
ToKilo(x) == Sgn(x) * (Abs(x) \div Kilo)

RECURSIVE SumBeliefs(_, _)
SumBeliefs(agents, n) ==
    IF n = 0 THEN 0 ELSE SumBeliefs(agents, n - 1) + agents[n - 1].belief

\* main() up to the first agent_init: srand(time(NULL))
StartRun(clock) ==
    [pc |-> "initialize_agents",
     clock |-> clock,
     rand |-> srand(clock),
     agents |-> <<>>,
     market |-> <<>>,
     t |-> 0,
     i |-> 0,
     shock |-> 0,
     avg_belief |-> 0,
     out |-> <<>>,
     call |-> [fn |-> "srand", price |-> 0],
     cleared |-> FALSE,
     pre_clear_price |-> 0,
     clear_ret |-> 0,
     folded |-> 0]

\* one pass of the loop of initialize_agents
DoInitializeAgent(run) ==
    LET r == sim_uniform_random(run.rand)
        type == IF r.value < 600000 THEN AGENT_RETAIL
                ELSE IF r.value < 600000 + 300000 THEN AGENT_INSTITUTION
                ELSE AGENT_NOISE
        seed == rand(r.state)
        a == NewAgent(run.i, type, seed.value)
    IN  [run EXCEPT !.agents = [j \in 0 .. run.i |->
                                   IF j = run.i THEN a ELSE run.agents[j]],
                    !.rand = seed.state,
                    !.i = IF run.i + 1 < NUM_AGENTS THEN run.i + 1 ELSE 0,
                    !.pc = IF run.i + 1 < NUM_AGENTS THEN "initialize_agents"
                           ELSE "market_init",
                    !.call = [fn |-> "agent_init", price |-> 0]]

\* market_init(&market, INITIAL_PRICE, INITIAL_LIQUIDITY, 1.0, 0.94, 5.0)
DoMarketInit(run) ==
    [run EXCEPT !.market = market_init(INITIAL_PRICE, INITIAL_LIQUIDITY, One,
                                       940 * Kilo, 5 * One),
                !.pc = IF TIME_STEPS > 0 THEN "begin_step" ELSE "done",
                !.call = [fn |-> "market_init", price |-> 0]]

\* market_begin_step and generate_news_shock
DoBeginStep(run) ==
    LET drawn == generate_news_shock(run.rand)
    IN  [run EXCEPT !.market = market_begin_step(@),
                    !.rand = drawn.state,
                    !.shock = drawn.value,
                    !.i = 0,
                    !.cleared = FALSE,
                    !.pc = IF drawn.value # 0 THEN "apply_shock" ELSE "avg_belief",
                    !.call = [fn |-> "market_begin_step", price |-> 0]]

\* one pass of the loop that broadcasts the shock
DoApplyShock(run) ==
    [run EXCEPT !.agents[run.i] = agent_apply_shock(@, run.shock),
                !.i = IF run.i + 1 < NUM_AGENTS THEN run.i + 1 ELSE 0,
                !.pc = IF run.i + 1 < NUM_AGENTS THEN "apply_shock" ELSE "avg_belief",
                !.call = [fn |-> "agent_apply_shock", price |-> 0]]

DoAvgBelief(run) ==
    [run EXCEPT !.avg_belief = DivCount(SumBeliefs(run.agents, NUM_AGENTS), NUM_AGENTS),
                !.i = 0,
                !.pc = "collect_demand",
                !.call = [fn |-> "avg_belief", price |-> 0]]

\* one pass of the demand loop: agent_compute_demand, market_add_demand and
\* agent_apply_execution at market.price
DoCollectDemand(run) ==
    LET r == agent_compute_demand(run.agents[run.i], run.market.price,
                                  run.shock, run.avg_belief)
        executed == RoundToInt(r.demand)
    IN  [run EXCEPT !.market = market_add_demand(@, ToKilo(r.demand)),
                    !.agents[run.i] =
                        agent_apply_execution(r.agent, executed, run.market.price),
                    !.i = IF run.i + 1 < NUM_AGENTS THEN run.i + 1 ELSE 0,
                    !.pc = IF run.i + 1 < NUM_AGENTS THEN "collect_demand"
                           ELSE "market_clear",
                    !.call = [fn |-> "agent_apply_execution",
                              price |-> run.market.price]]

DoMarketClear(run) ==
    LET cleared == market_clear(run.market)
    IN  [run EXCEPT !.market = cleared,
                    !.cleared = TRUE,
                    !.pre_clear_price = run.market.price,
                    !.clear_ret = cleared.price,
                    !.pc = "update_volatility",
                    !.call = [fn |-> "market_clear", price |-> 0]]

DoUpdateVolatility(run) ==
    [run EXCEPT !.market = market_update_volatility(@),
                !.folded = market_log_return(run.market),
                !.i = 0,
                !.pc = "update_belief",
                !.call = [fn |-> "market_update_volatility", price |-> 0]]

\* one pass of the belief loop
DoUpdateBelief(run) ==
    [run EXCEPT !.agents[run.i] =
                    agent_update_belief(@, run.market.price, run.shock, run.avg_belief),
                !.i = IF run.i + 1 < NUM_AGENTS THEN run.i + 1 ELSE 0,
                !.pc = IF run.i + 1 < NUM_AGENTS THEN "update_belief" ELSE "log",
                !.call = [fn |-> "agent_update_belief", price |-> run.market.price]]

\* the fprintf of the step, the circuit breaker, and t++
DoLogAndBreaker(run) ==
    LET logret == market_log_return(run.market)
        line == [time |-> run.t, price |-> run.market.price, log_return |-> logret,
                 volatility |-> run.market.volatility, shock |-> run.shock]
    IN  [run EXCEPT !.out = Append(@, line),
                    !.market = IF Abs(logret) > 150000 THEN market_halt(@)
                               ELSE market_resume(@),
                    !.t = @ + 1,
                    !.pc = IF run.t + 1 < TIME_STEPS THEN "begin_step" ELSE "done",
                    !.call = [fn |-> IF Abs(logret) > 150000 THEN "market_halt"
                                     ELSE "market_resume",
                              price |-> 0]]

\* the next statement of main()
SimStep(run) ==
    CASE run.pc = "initialize_agents" -> DoInitializeAgent(run)
      [] run.pc = "market_init" -> DoMarketInit(run)
      [] run.pc = "begin_step" -> DoBeginStep(run)
      [] run.pc = "apply_shock" -> DoApplyShock(run)
      [] run.pc = "avg_belief" -> DoAvgBelief(run)
      [] run.pc = "collect_demand" -> DoCollectDemand(run)
      [] run.pc = "market_clear" -> DoMarketClear(run)
      [] run.pc = "update_volatility" -> DoUpdateVolatility(run)
      [] run.pc = "update_belief" -> DoUpdateBelief(run)
      [] run.pc = "log" -> DoLogAndBreaker(run)
      [] OTHER -> run

(***************************************************************************)
(* SpecSim: one run of main().                                             *)
(***************************************************************************)
MarketIdle ==
    /\ m = market_init(INITIAL_PRICE, 1200 * Kilo, One, 940 * Kilo, 5 * One)
    /\ op = "market_init"
    /\ ret = 0
    /\ nops = 0
    /\ nclears = 0
    /\ resumed = FALSE
    /\ was_halted = FALSE
    /\ flow = [signed |-> 0, volume |-> 0]

InitSim ==
    /\ MarketIdle
    /\ AgentIdle
    /\ NewsIdle
    /\ \E c \in ClockValues : w = StartRun(c)
    /\ w2 = <<>>

InitializeAgent ==
    /\ w.pc = "initialize_agents"
    /\ w' = DoInitializeAgent(w)
    /\ UNCHANGED <<w2, marketVars, agentVars, newsVars>>

SimMarketInit ==
    /\ w.pc = "market_init"
    /\ w' = DoMarketInit(w)
    /\ UNCHANGED <<w2, marketVars, agentVars, newsVars>>

SimBeginStep ==
    /\ w.pc = "begin_step"
    /\ w' = DoBeginStep(w)
    /\ UNCHANGED <<w2, marketVars, agentVars, newsVars>>

SimApplyShock ==
    /\ w.pc = "apply_shock"
    /\ w' = DoApplyShock(w)
    /\ UNCHANGED <<w2, marketVars, agentVars, newsVars>>

SimAvgBelief ==
    /\ w.pc = "avg_belief"
    /\ w' = DoAvgBelief(w)
    /\ UNCHANGED <<w2, marketVars, agentVars, newsVars>>

SimCollectDemand ==
    /\ w.pc = "collect_demand"
    /\ w' = DoCollectDemand(w)
    /\ UNCHANGED <<w2, marketVars, agentVars, newsVars>>

SimMarketClear ==
    /\ w.pc = "market_clear"
    /\ w' = DoMarketClear(w)
    /\ UNCHANGED <<w2, marketVars, agentVars, newsVars>>

SimUpdateVolatility ==
    /\ w.pc = "update_volatility"
    /\ w' = DoUpdateVolatility(w)
    /\ UNCHANGED <<w2, marketVars, agentVars, newsVars>>

SimUpdateBelief ==
    /\ w.pc = "update_belief"
    /\ w' = DoUpdateBelief(w)
    /\ UNCHANGED <<w2, marketVars, agentVars, newsVars>>

SimLogAndBreaker ==
    /\ w.pc = "log"
    /\ w' = DoLogAndBreaker(w)
    /\ UNCHANGED <<w2, marketVars, agentVars, newsVars>>

NextSim ==
    \/ InitializeAgent
    \/ SimMarketInit
    \/ SimBeginStep
    \/ SimApplyShock
    \/ SimAvgBelief
    \/ SimCollectDemand
    \/ SimMarketClear
    \/ SimUpdateVolatility
    \/ SimUpdateBelief
    \/ SimLogAndBreaker

SpecSim == InitSim /\ [][NextSim]_vars

(***************************************************************************)
(* SpecPair: two runs of main(), built from the same constants, started at *)
(* any two clock values and advanced statement by statement.               *)
(***************************************************************************)
InitPair ==
    /\ MarketIdle
    /\ AgentIdle
    /\ NewsIdle
    /\ \E c1 \in ClockValues, c2 \in ClockValues :
          /\ w = StartRun(c1)
          /\ w2 = StartRun(c2)

PairStep ==
    /\ w.pc # "done" \/ w2.pc # "done"
    /\ w' = SimStep(w)
    /\ w2' = SimStep(w2)
    /\ UNCHANGED <<marketVars, agentVars, newsVars>>

NextPair == PairStep

SpecPair == InitPair /\ [][NextPair]_vars

(***************************************************************************)
(* SpecNews: the news process driven by any sequence of calls of its API.  *)
(***************************************************************************)
MaxNewsOps == 5

\* news_seed arguments: zero, seeds whose first two draws fall on each side
\* of the transition probabilities and of the arrival intensities, and
\* 15619307733724672523, whose fifth draw is 107 * 2^-64, that is 0.0
NewsSeeds ==
    {ToUint64(s) : s \in {0, 1, 16, 85417545, 1432839693, 1670538434}}
    \cup {Word(3551419, 854161, 766475)}

InitNews ==
    /\ MarketIdle
    /\ AgentIdle
    /\ SimIdle
    /\ NewsIdle

NewsSeed ==
    /\ nnops < MaxNewsOps
    /\ \E s \in NewsSeeds :
          /\ news' = news_seed(news, s)
          /\ ncall' = [fn |-> "news_seed", seed |-> s]
    /\ nnops' = nnops + 1
    /\ UNCHANGED <<marketVars, agentVars, simVars>>

NewsGenerateShock ==
    /\ nnops < MaxNewsOps
    /\ LET r == news_generate_shock(news)
       IN  /\ news' = r.news
           /\ ncall' = [fn |-> "news_generate_shock", regime_before |-> news.regime,
                        first |-> r.first, second |-> r.second,
                        fired |-> r.fired, ret |-> r.value]
    /\ nnops' = nnops + 1
    /\ UNCHANGED <<marketVars, agentVars, simVars>>

NewsCurrentRegime ==
    /\ nnops < MaxNewsOps
    /\ ncall' = [fn |-> "news_current_regime", ret |-> news_current_regime(news)]
    /\ nnops' = nnops + 1
    /\ UNCHANGED <<news, marketVars, agentVars, simVars>>

NextNews ==
    \/ NewsSeed
    \/ NewsGenerateShock
    \/ NewsCurrentRegime

SpecNews == InitNews /\ [][NextNews]_vars

(***************************************************************************)
(* SpecBelief: one agent of any type, built by agent_init with a           *)
(* belief_update_rate between 0 and 1, whose belief is updated with any    *)
(* observed price, shock and average market signal.                        *)
(***************************************************************************)
MaxBeliefOps == 3

BeliefRates == {0, 50000, 500000, One}
Anchors == {100 * One, 90 * One}
BeliefPrices == {101 * One, 95 * One + 250000}
AvgSignals == {0, 100 * One, 250 * One}

InitBelief ==
    /\ MarketIdle
    /\ SimIdle
    /\ NewsIdle
    /\ \E type \in {AGENT_RETAIL, AGENT_INSTITUTION, AGENT_NOISE},
          rate \in BeliefRates, anchor \in Anchors :
          LET p == TypeParams(type)
          IN  population =
                  [i \in {0} |->
                      agent_init(0, type, INITIAL_PRICE, p.aggressiveness, One,
                                 p.risk_aversion, 20000, rate, p.network_influence,
                                 p.noise_std, anchor, ToUint64(12345))]
    /\ acall = [fn |-> "agent_init"]
    /\ aret = 0
    /\ anops = 0
    /\ sumq = [i \in {0} |-> 0]
    /\ notional = [i \in {0} |-> [units |-> 0, millionths |-> 0]]

BeliefUpdate ==
    /\ anops < MaxBeliefOps
    /\ \E p \in BeliefPrices, sh \in Shocks, g \in AvgSignals :
          /\ population' = [population EXCEPT
                               ![0] = agent_update_belief(@, p, sh, g)]
          /\ acall' = [fn |-> "agent_update_belief", agent |-> 0, price |-> p,
                       shock |-> sh, avg |-> g]
    /\ anops' = anops + 1
    /\ UNCHANGED <<aret, sumq, notional, marketVars, simVars, newsVars>>

NextBelief == BeliefUpdate

SpecBelief == InitBelief /\ [][NextBelief]_vars

(***************************************************************************)
(* Claims about the Market                                                 *)
(***************************************************************************)
\* |cumulative_demand| above max_price_change * liquidity / impact_coefficient
OverClamp(mk) ==
    Abs(mk.cumulative_demand)
        > Div(Mul(mk.max_price_change, mk.liquidity), mk.impact_coefficient)

\* what a clear of a market that is not halted is specified to leave as the price
SpecifiedPrice(mk) ==
    LET delta == Mul(mk.impact_coefficient,
                     Div(mk.cumulative_demand, mk.liquidity))
        capped == Max(-mk.max_price_change, Min(mk.max_price_change, delta))
    IN  Max(mk.price + capped, Epsilon)

C3_HaltedClearIsNoOp ==
    [][(op' = "market_clear" /\ m.trading_halted)
          => (m' = m /\ ret' = m.price)]_vars

\* a clear ran on a halted market that had demand accumulated
C3_Witness ==
    /\ op = "market_clear"
    /\ m.trading_halted
    /\ m.cumulative_demand # 0
    /\ m.time > 0

\* C4: once a halted market was resumed, the next market_clear is a normal
\* clear: last_price becomes the price before the clear, the price moves by
\* the clamped impact of the accumulated demand, time increases by 1.
C4_ResumeThenClear ==
    [][(resumed /\ op' = "market_clear")
          => /\ m'.last_price = m.price
             /\ m'.price = SpecifiedPrice(m)
             /\ m'.time = m.time + 1
             /\ ret' = m'.price]_vars

\* a clear after halt and resume that moved the price
C4_Witness ==
    /\ resumed
    /\ op = "market_clear"
    /\ m.price # m.last_price

\* C5 as stated: an over-the-clamp clear moves the price by exactly
\* +max_price_change or -max_price_change, from every reachable price.
C5_ExactClampEverywhere ==
    [][(op' = "market_clear" /\ ~m.trading_halted /\ OverClamp(m))
          => m'.price - m.price
                = Sgn(m.cumulative_demand) * m.max_price_change]_vars

\* C5 amended: the move is exactly the cap unless the capped move would take
\* the price below epsilon; then the price after the clear is epsilon.
C5_ClampThenFloor ==
    [][(op' = "market_clear" /\ ~m.trading_halted /\ OverClamp(m))
          => IF m.price + Sgn(m.cumulative_demand) * m.max_price_change
                  >= Epsilon
             THEN m'.price - m.price
                     = Sgn(m.cumulative_demand) * m.max_price_change
             ELSE m'.price = Epsilon]_vars

\* an over-the-clamp sell clear that moved the price down by exactly the cap
C5_Witness ==
    /\ op = "market_clear"
    /\ ~m.trading_halted
    /\ OverClamp(m)
    /\ m.cumulative_demand < 0
    /\ m.price - m.last_price = -m.max_price_change

\* C9: time equals the number of clears that found the market not halted; it
\* changes only in such a clear, by exactly +1, and never decreases.
C9_TimeCountsClears ==
    /\ [](m.time = nclears)
    /\ [][\/ m'.time = m.time
          \/ (op' = "market_clear" /\ ~m.trading_halted
                /\ m'.time = m.time + 1)]_vars

\* time stayed at 1 through a halted clear and a begin_step
C9_Witness ==
    /\ m.time = 1
    /\ nops >= 4
    /\ op = "market_begin_step"
    /\ m.trading_halted

\* C13: a market_clear of a market that is not halted sets last_price to the
\* price before the clear and returns the new price max(old price + clamp(
\* impact_coefficient * cumulative_demand / liquidity, -max_price_change,
\* +max_price_change), epsilon); with liquidity 1200, impact 1.0, cap 5.0 and
\* price 100.0, demand 600 gives 100.5 and demand 10000 gives 105.0.
C13_ClearFormula ==
    [][(op' = "market_clear" /\ ~m.trading_halted)
          => /\ m'.last_price = m.price
             /\ m'.price = SpecifiedPrice(m)
             /\ ret' = m'.price
             /\ (m.price = 100 * One /\ m.cumulative_demand = 600 * Kilo)
                   => m'.price = 100 * One + 500000
             /\ (m.price = 100 * One /\ m.cumulative_demand = 10000 * Kilo)
                   => m'.price = 105 * One]_vars

\* a clear of demand 600 at price 100.0 left price 100.5
C13_Witness ==
    /\ op = "market_clear"
    /\ ~was_halted
    /\ m.cumulative_demand = 600 * Kilo
    /\ m.last_price = 100 * One
    /\ m.price = 100 * One + 500000

\* C14: market_halt and market_resume touch only the flag and are idempotent:
\* halting a halted market or resuming an active one changes nothing, and
\* halt;halt is halt, resume;resume is resume.
C14_HaltResumeIdempotent ==
    /\ [](/\ market_halt(market_halt(m)) = market_halt(m)
          /\ market_resume(market_resume(m)) = market_resume(m))
    /\ [][/\ op' = "market_halt"
               => /\ m' = [m EXCEPT !.trading_halted = TRUE]
                  /\ m.trading_halted => m' = m
          /\ op' = "market_resume"
               => /\ m' = [m EXCEPT !.trading_halted = FALSE]
                  /\ ~m.trading_halted => m' = m]_vars

\* a halted market with demand accumulated was halted again
C14_Witness ==
    /\ op = "market_halt"
    /\ was_halted
    /\ m.trading_halted
    /\ m.cumulative_demand # 0

\* C15: cumulative_demand and cumulative_volume are the signed and absolute
\* sums of the demands added since the last market_begin_step, whether or not
\* trading was halted when they were added.
C15_FlowIgnoresHalt ==
    /\ m.cumulative_demand = flow.signed
    /\ m.cumulative_volume = flow.volume

\* demands of both signs were added to a halted market
C15_Witness ==
    /\ op = "market_add_demand"
    /\ was_halted
    /\ m.trading_halted
    /\ flow.signed # 0
    /\ flow.volume > Abs(flow.signed)

\* C24: a market_clear of a market that is not halted, from a price of at
\* least epsilon and with max_price_change >= 0, moves the price by at most
\* max_price_change, whatever demand was accumulated; the floor at epsilon
\* does not enlarge the move.
C24_MoveWithinCap ==
    [][(op' = "market_clear" /\ ~m.trading_halted
          /\ m.price >= Epsilon /\ m.max_price_change >= 0)
          => Abs(m'.price - m.price) <= m.max_price_change]_vars

\* a clear from price 2.0 was floored at epsilon, a move smaller than the cap
C24_Witness ==
    /\ op = "market_clear"
    /\ ~was_halted
    /\ m.last_price = 2 * One
    /\ m.price = Epsilon
    /\ m.max_price_change = 5 * One

\* C27: cumulative_volume is at least |cumulative_demand| and at least 0 in
\* every state, and it decreases in no operation but market_begin_step.
C27_VolumeBoundsDemand ==
    /\ [](/\ m.cumulative_volume >= Abs(m.cumulative_demand)
          /\ m.cumulative_volume >= 0)
    /\ [][op' # "market_begin_step"
             => m'.cumulative_volume >= m.cumulative_volume]_vars

\* a buy of 600 and a sell of 10000 went through a clear: volume 10600,
\* demand -9400
C27_Witness ==
    /\ op = "market_clear"
    /\ m.cumulative_volume = 10600 * Kilo
    /\ m.cumulative_demand = -9400 * Kilo

(***************************************************************************)
(* Claims about the population and the diffusion                               *)
(***************************************************************************)
\* C1: after any sequence of executions from agent_init, position is the sum
\* of the executed quantities and cash is minus the sum of quantity * price
\* (so each call adds qty to position and takes qty * price from cash).
C1_AccountingIdentity ==
    \A i \in DOMAIN population :
        /\ population[i].position = sumq[i]
        /\ population[i].cash.lo \in 0 .. One - 1
        /\ population[i].cash.hi = -notional[i].units
                                 + ((-notional[i].millionths) \div One)
        /\ population[i].cash.lo = (-notional[i].millionths) % One

\* an agent bought and sold at different prices, with other calls in between
C1_Witness ==
    \E i \in DOMAIN population :
        /\ sumq[i] = -1
        /\ notional[i].millionths # 0
        /\ acall.fn = "agent_apply_execution"

\* C8: information_propagate with global_shock = 0 changes no field of any
\* agent, whatever the population and the neighbor graph.
C8_ZeroShockNoOp ==
    [][(acall'.fn = "information_propagate" /\ acall'.shock = 0)
          => population' = population]_vars

\* a zero shock was propagated through a population with neighbor lists,
\* after the beliefs had moved
C8_Witness ==
    /\ acall.fn = "information_propagate"
    /\ acall.shock = 0
    /\ population[0].neighbor_count > 0
    /\ population[0].belief # INITIAL_PRICE

\* C16: position and cash of every agent change only in
\* agent_apply_execution: agent_compute_demand, agent_update_belief,
\* agent_apply_shock and information_propagate leave them as they were.
C16_OnlyExecutionMovesInventory ==
    [][acall'.fn # "agent_apply_execution"
          => \A i \in DOMAIN population :
                /\ population'[i].position = population[i].position
                /\ population'[i].cash = population[i].cash]_vars

\* the belief of an agent holding a position was updated
C16_Witness ==
    /\ acall.fn = "agent_update_belief"
    /\ population[acall.agent].position # 0
    /\ population[acall.agent].cash # [hi |-> 0, lo |-> 0]
    /\ population[acall.agent].belief # INITIAL_PRICE

\* the orders in which the loop over the agents may visit a population of three
VisitOrders ==
    {o \in [1 .. 3 -> 0 .. 2] : \A j, k \in 1 .. 3 : j # k => o[j] # o[k]}

\* the local signals after all steps, each step visiting the agents in order
RECURSIVE RoundsInOrder(_, _, _, _)
RoundsInOrder(agents, local_signal, step, order) ==
    IF step > MAX_PROPAGATION_STEPS THEN local_signal
    ELSE RoundsInOrder(agents, PropagationRound(agents, local_signal, step, order),
                       step + 1, order)

\* C19: within a round every agent reads the local signals as they stood when
\* the round began, so the belief deltas of information_propagate are the
\* same for every order in which the agents are visited.
C19_SnapshotRounds ==
    [][(acall'.fn = "information_propagate" /\ acall'.shock # 0)
          => \A order \in VisitOrders :
                \A i \in DOMAIN population :
                    population'[i].belief - population[i].belief
                        = RoundsInOrder(population,
                                        DirectExposure(population, acall'.shock),
                                        1, order)[i]]_vars

\* a shock was propagated through the star, where agent 0 and its neighbors
\* read each other
C19_Witness ==
    /\ acall.fn = "information_propagate"
    /\ acall.shock # 0
    /\ population[0].neighbor_count = 2
    /\ population[1].neighbors = <<0>>
    /\ population[0].belief # INITIAL_PRICE

\* C20: information_propagate with a non-negligible shock adds to every
\* agent's belief, once, its accumulated local signal and changes nothing
\* else; for an agent without neighbors that is base_attention *
\* attention_weight(type) * global_shock with weights 1.2 (Retail), 0.6
\* (Institution), 0.9 (Noise), whatever the graph.
C20_BeliefIncrementedOnce ==
    [][(acall'.fn = "information_propagate" /\ acall'.shock # 0)
          => \A i \in DOMAIN population :
                /\ population'[i] =
                      [population[i] EXCEPT !.belief =
                          @ + PropagationSteps(population,
                                  DirectExposure(population, acall'.shock), 1)[i]]
                /\ population[i].neighbor_count = 0
                      => population'[i].belief - population[i].belief
                            = Mul(Mul(600000,
                                      IF population[i].type = AGENT_RETAIL THEN 1200000
                                      ELSE IF population[i].type = AGENT_INSTITUTION
                                           THEN 600000
                                      ELSE 900000),
                                  acall'.shock)]_vars

\* a shock of -2.5 was propagated along the chain: the noise trader at its
\* end, who has no neighbors, moved by 0.6 * 0.9 * -2.5
C20_Witness ==
    /\ acall.fn = "information_propagate"
    /\ acall.shock = -2 * One - 500000
    /\ population[0].neighbor_count = 1
    /\ population[2].neighbor_count = 0
    /\ population[2].belief = INITIAL_PRICE - 1350000

\* the agents reachable from agent i along neighbor lists in at most k hops
RECURSIVE Reach(_, _, _)
Reach(agents, i, k) ==
    IF k = 0 THEN {i}
    ELSE LET r == Reach(agents, i, k - 1)
         IN  r \cup UNION {{agents[j].neighbors[n] : n \in 1 .. agents[j].neighbor_count}
                             : j \in r}

\* what information_propagate adds to each belief
BeliefDeltas(agents, global_shock) ==
    PropagationSteps(agents, DirectExposure(agents, global_shock), 1)

\* the population with agent j given a type and another network_influence
Replaced(agents, j, type) ==
    [agents EXCEPT ![j].type = type, ![j].network_influence = One - @]

\* a directed chain 0 -> 1 -> 2 -> 3 -> 4 of the agents of the population,
\* each one listening to the next with weight 0.5
LongChain(agents) ==
    [k \in 0 .. 4 |->
        [agents[k % 3] EXCEPT !.neighbors = IF k < 4 THEN <<k + 1>> ELSE <<>>,
                              !.neighbor_count = IF k < 4 THEN 1 ELSE 0,
                              !.network_influence = 500000]]

\* C21: diffusion follows the neighbor lists as a directed graph: what
\* information_propagate adds to agent i's belief depends on agent j only if j
\* is reachable from i along neighbor lists within MAX_PROPAGATION_STEPS
\* hops; being listed by j does not make i depend on j.
C21_DirectedDiffusion ==
    [][(acall'.fn = "information_propagate" /\ acall'.shock # 0)
          => /\ \A i \in DOMAIN population :
                    population'[i].belief - population[i].belief
                        = BeliefDeltas(population, acall'.shock)[i]
             /\ \A P \in {population, LongChain(population)} :
                    \A i, j \in DOMAIN P :
                        j \notin Reach(P, i, MAX_PROPAGATION_STEPS)
                            => \A t \in {AGENT_RETAIL, AGENT_INSTITUTION, AGENT_NOISE} :
                                  BeliefDeltas(Replaced(P, j, t), acall'.shock)[i]
                                      = BeliefDeltas(P, acall'.shock)[i]]_vars

\* a shock went along the chain 0 -> 1 -> 2: agent 0 received more than its
\* direct exposure, agent 2, whom nobody reaches back, only its own
C21_Witness ==
    /\ acall.fn = "information_propagate"
    /\ acall.shock # 0
    /\ anops = 1
    /\ population[0].neighbors = <<1>>
    /\ population[1].neighbors = <<2>>
    /\ population[0].belief # INITIAL_PRICE + Mul(720000, acall.shock)
    /\ population[2].belief = INITIAL_PRICE + Mul(540000, acall.shock)

\* the demand as specified: the herding term is part of raw for every agent
SpecifiedDemand(a, market_price, global_shock, avg_neighbor_belief) ==
    LET signal == (a.belief - market_price)
                  + (IF a.type = AGENT_INSTITUTION
                     THEN Mul(500000, a.fundamental_anchor - market_price)
                     ELSE 0)
        noise == Mul(a.noise_std, normal_random(a.rng_state).value)
        raw == Mul(a.aggressiveness, signal)
               - Mul(a.risk_aversion, position_penalty(a.position))
               + Mul(a.network_influence, avg_neighbor_belief - a.belief)
               + noise + global_shock
    IN  IF Abs(raw) < a.liquidity_tolerance THEN 0
        ELSE Mul(a.trade_size_scale, raw)

\* C23: agent_compute_demand returns 0 when |raw| < liquidity_tolerance and
\* trade_size_scale * raw otherwise, with raw = aggressiveness * signal
\* - risk_aversion * penalty(position) + network_influence *
\* (avg_neighbor_belief - belief) + noise + global_shock for every agent,
\* whatever its neighbor count.
C23_DemandFormula ==
    [][acall'.fn = "agent_compute_demand"
          => aret' = SpecifiedDemand(population[acall'.agent], m.price,
                                     acall'.shock, INITIAL_PRICE)]_vars

\* C28: agent_update_belief with a rate in [0,1] and zero shock leaves the
\* belief between the old belief and the target (observed_price, or 0.7 *
\* observed_price + 0.3 * fundamental_anchor for Institution), at the old
\* belief for rate 0 and at the target for rate 1; a shock adds exactly 0.1 *
\* global_shock to that; avg_market_signal has no effect, and no other field
\* changes.
C28_BeliefUpdateNoOvershoot ==
    [][acall'.fn = "agent_update_belief"
          => LET a == population[0]
                 target == IF a.type = AGENT_INSTITUTION
                           THEN Mul(700000, acall'.price)
                                + Mul(300000, a.fundamental_anchor)
                           ELSE acall'.price
                 unshocked == agent_update_belief(a, acall'.price, 0,
                                                  acall'.avg).belief
             IN  /\ a.belief_update_rate \in 0 .. One
                 /\ Min(a.belief, target) <= unshocked
                 /\ unshocked <= Max(a.belief, target)
                 /\ a.belief_update_rate = 0 => unshocked = a.belief
                 /\ a.belief_update_rate = One => unshocked = target
                 /\ population'[0].belief
                       = unshocked + Mul(100000, acall'.shock)
                 /\ population'[0] = [a EXCEPT !.belief = population'[0].belief]
                 /\ \A g \in AvgSignals :
                       agent_update_belief(a, acall'.price, acall'.shock, g)
                           = population'[0]]_vars

\* an Institution with rate 1 and anchor 90 moved to 0.7 * price + 0.3 * 90,
\* plus a tenth of the shock
C28_Witness ==
    /\ acall.fn = "agent_update_belief"
    /\ acall.shock # 0
    /\ population[acall.agent].type = AGENT_INSTITUTION
    /\ population[acall.agent].belief_update_rate = One
    /\ population[acall.agent].fundamental_anchor = 90 * One
    /\ population[acall.agent].belief
          = Mul(700000, acall.price) + 27 * One + Mul(100000, acall.shock)

(***************************************************************************)
(* Claims about the driver                                                 *)
(***************************************************************************)
\* C6: in every step, agent_apply_execution and agent_update_belief are called
\* only after that step's market_clear has run, and agent_apply_execution is
\* passed the price that market_clear returned.
C6_ExecutionAfterClear ==
    w.call.fn \in {"agent_apply_execution", "agent_update_belief"}
        => /\ w.cleared
           /\ w.call.fn = "agent_apply_execution" => w.call.price = w.clear_ret

\* C7: two runs built from the same seeds and parameters write the same
\* sequence of lines (price, log_return, volatility, shock).
C7_SameOutput ==
    \A k \in 1 .. Min(Len(w.out), Len(w2.out)) : w.out[k] = w2.out[k]

\* C10: in every step, halted or not, market_update_volatility runs after the
\* step's market_clear and folds in log(price after that clear / price before
\* that clear), which is 0 when the clear left the price unchanged.
C10_FoldsThisStepsReturn ==
    w.call.fn = "market_update_volatility"
        => /\ w.cleared
           /\ w.folded = IF w.market.price > 0 /\ w.pre_clear_price > 0
                         THEN Ln(w.market.price) - Ln(w.pre_clear_price)
                         ELSE 0

\* the body of the demand loop run for agent k
CollectFor(run, k) == DoCollectDemand([run EXCEPT !.i = k])

\* the demand loop run for the agents of order, from the n-th on
RECURSIVE CollectInOrder(_, _, _)
CollectInOrder(run, order, n) ==
    IF n > Len(order) THEN run
    ELSE CollectInOrder(CollectFor(run, order[n]), order, n + 1)

\* the orders in which the demand loop may visit the agents
AgentOrders ==
    {o \in [1 .. NUM_AGENTS -> 0 .. NUM_AGENTS - 1] :
        \A j, k \in 1 .. NUM_AGENTS : j # k => o[j] # o[k]}

\* the demand agent k computes in the run
DemandOf(run, k) ==
    agent_compute_demand(run.agents[k], run.market.price, run.shock,
                         run.avg_belief).demand

\* C22: the demand computations of a step are order-independent: a pass of
\* the demand loop leaves price, shock and average belief as they were and
\* touches no other agent; agent_compute_demand changes only the rng_state of
\* its agent, by one draw; so every order of the agents gives the same
\* demands and the same agents.
C22_DemandOrderIndependent ==
    [][w.pc = "collect_demand"
          => /\ \A j \in DOMAIN w.agents : j # w.i => w'.agents[j] = w.agents[j]
             /\ agent_compute_demand(w.agents[w.i], w.market.price, w.shock,
                                     w.avg_belief).agent
                   = [w.agents[w.i] EXCEPT !.rng_state = xorshift64(@)]
             /\ w'.agents[w.i].rng_state = xorshift64(w.agents[w.i].rng_state)
             /\ w'.market.price = w.market.price
             /\ w'.shock = w.shock
             /\ w'.avg_belief = w.avg_belief
             /\ w.i = 0
                   => \A order \in AgentOrders :
                         /\ CollectInOrder(w, order, 1).agents
                               = CollectInOrder(w, IndexOrder(w.agents), 1).agents
                         /\ \A n \in 1 .. NUM_AGENTS :
                               DemandOf(CollectInOrder(w, SubSeq(order, 1, n - 1), 1),
                                        order[n])
                                   = DemandOf(w, order[n])]_vars

\* a demand phase after the first step ended with every agent holding a
\* position and the agents' streams in different states
C22_Witness ==
    /\ w.pc = "market_clear"
    /\ w.t >= 1
    /\ \A j \in DOMAIN w.agents : w.agents[j].position # 0
    /\ w.agents[0].rng_state # w.agents[1].rng_state
    /\ w.market.cumulative_demand # 0

\* C26: in main() the circuit breaker is absorbing: once a step has ended
\* with market_halt, the market stays halted and price, last_price and time
\* stay as they are through every later statement of the run, so every later
\* line repeats the price and the log return of the step that tripped it.
C26_BreakerAbsorbing ==
    /\ [][(w.pc \notin {"initialize_agents", "market_init"}
             /\ w.market.trading_halted)
             => /\ w'.market.trading_halted
                /\ w'.market.price = w.market.price
                /\ w'.market.last_price = w.market.last_price
                /\ w'.market.time = w.market.time]_vars
    /\ [](\A k \in 1 .. Len(w.out) - 1 :
             Abs(w.out[k].log_return) > 150000
                 => /\ w.out[k + 1].price = w.out[k].price
                    /\ w.out[k + 1].log_return = w.out[k].log_return)

\* a run ended halted, several steps after the breaker tripped
C26_Witness ==
    /\ w.pc = "done"
    /\ w.market.trading_halted
    /\ w.market.time + 2 <= Len(w.out)
    /\ Abs(w.out[Len(w.out)].log_return) > 150000
    /\ w.out[Len(w.out)].price = w.out[w.market.time].price

(***************************************************************************)
(* Claims about the news process                                           *)
(***************************************************************************)
\* C17: every news_generate_shock makes one regime-transition check with its
\* first uniform draw (the arrival test gets the draw right after it): Calm
\* becomes Stressed iff the draw is below p_switch_to_stress, Stressed becomes
\* Calm iff it is below p_switch_to_calm; no other operation changes the regime.
C17_OneTransitionCheck ==
    [][/\ ncall'.fn = "news_generate_shock"
           => LET first == Shr(xorshift64(news.rng_state), 11)
              IN  /\ ncall'.first = first
                  /\ ncall'.second
                        = Shr(xorshift64(xorshift64(news.rng_state)), 11)
                  /\ news'.regime
                        = IF news.regime = 0
                          THEN (IF UniformBelow(first, P_SWITCH_TO_STRESS)
                                THEN 1 ELSE 0)
                          ELSE (IF UniformBelow(first, P_SWITCH_TO_CALM)
                                THEN 0 ELSE 1)
       /\ ncall'.fn # "news_generate_shock" => news'.regime = news.regime]_vars

\* a stressed regime returned to calm on a draw between 0.002 and 0.01
C17_Witness ==
    /\ ncall.fn = "news_generate_shock"
    /\ ncall.regime_before = 1
    /\ news.regime = 0
    /\ ~UniformBelow(ncall.first, P_SWITCH_TO_STRESS)

\* C18: a shock fires only if the second draw of the call is below the
\* arrival intensity of the current regime (0.01 Calm, 0.05 Stressed); if the
\* draw is not below it, the call returns 0.0 and draws nothing more.
C18_FiresOnlyBelowIntensity ==
    [][ncall'.fn = "news_generate_shock"
          => LET after_two == xorshift64(xorshift64(news.rng_state))
                 second == Shr(after_two, 11)
                 intensity == IF news'.regime = 0 THEN ARRIVAL_CALM
                              ELSE ARRIVAL_STRESSED
             IN  /\ ncall'.fired => UniformBelow(second, intensity)
                 /\ ~UniformBelow(second, intensity)
                       => /\ ncall'.ret = 0
                          /\ ~ncall'.fired
                          /\ news'.rng_state = after_two]_vars

\* in the calm regime a draw between 0.01 and 0.05 fired no shock
C18_Witness ==
    /\ ncall.fn = "news_generate_shock"
    /\ news.regime = 0
    /\ ~ncall.fired
    /\ ncall.ret = 0
    /\ UniformBelow(ncall.second, ARRIVAL_STRESSED)
    /\ ~UniformBelow(ncall.second, ARRIVAL_CALM)

\* C25: the shock news_generate_shock returns is finite in every reachable
\* state of the stream: the draws heavy_tail_shock takes the logarithm of, or
\* divides by the square root of, are kept above zero.
C25_ShockFinite ==
    ncall.fn = "news_generate_shock" => Abs(ncall.ret) < Infinity

(***************************************************************************)
(* Claims about construction and seeding                                   *)
(***************************************************************************)
\* C11: no random stream, the news stream or an agent's, ever holds state
\* zero: a seed of zero is rejected or remapped to a non-zero default.
C11_NoStreamAtZero ==
    /\ news.rng_state # {}
    /\ \A i \in DOMAIN population : population[i].rng_state # {}

\* C12: no Market is left with liquidity <= 0, nor built with an initial
\* price <= 0: such arguments are reported by market_init as an error.
C12_ConfigValidated ==
    /\ m.liquidity > 0
    /\ op = "market_init" => m.price > 0

====
